---- MODULE Spec2Model ----
(***************************************************************************)
(* Model of learn_2dmatpedia: the eligibility filter                       *)
(* (filter_db_with_elements.py), the JSON -> ASE database conversion       *)
(* (readout_json.py) and the database analysis (analysis_db.py).           *)
(*                                                                         *)
(* Python values are modelled as follows.  A dict is a function whose      *)
(* DOMAIN is its key set; a list is a sequence; a float is an opaque       *)
(* string (the code only copies and collects property values); None is     *)
(* the string "None".                                                      *)
(***************************************************************************)
EXTENDS Integers, Sequences, FiniteSets, TLC

VARIABLES
    \* filter_db_with_elements.py
    elements_list, eligible_elements_flag, filter_pc,
    \* readout_json.py
    materials, all_db, ingest_i, ingest_pc,
    \* analysis_db.py: the database under analysis
    db,
    \* analysis_db.py: element_analysis
    census_pc, census_i, element_counts, sorted_elements, census_report,
    \* analysis_db.py: analyze_property_distribution
    property_name, agg_pc, agg_i, property_values, total_structures,
    structures_with_property, agg_return, bin_count, report_bins,
    \* the number of values a finished scan has retained, len(property_values)
    n_points,
    \* filter_db_with_elements.py, the script: filtered_2DMat.db,
    \* filtered_2DMat_sample.db, the loop position and the runs completed
    filtered_db, sample_db, script_i, script_pc, script_runs

filter_vars == <<elements_list, eligible_elements_flag, filter_pc>>
ingest_vars == <<materials, all_db, ingest_i, ingest_pc>>
census_vars == <<census_pc, census_i, element_counts, sorted_elements, census_report>>
agg_vars == <<property_name, agg_pc, agg_i, property_values, total_structures,
              structures_with_property, agg_return, bin_count, report_bins>>
script_vars == <<filtered_db, sample_db, script_i, script_pc, script_runs>>
vars == <<filter_vars, ingest_vars, db, census_vars, agg_vars, n_points, script_vars>>

-----------------------------------------------------------------------------
(* Helpers for Python containers *)

Range(s) == {s[k] : k \in 1..Len(s)}

\* dict.get(key, default)
Get(d, key, default) == IF key \in DOMAIN d THEN d[key] ELSE default

\* all dicts with keys among K and values among V
Dicts(K, V) == UNION {[D -> V] : D \in SUBSET K}

\* all lists of length at most n over S
Lists(S, n) == UNION {[1..k -> S] : k \in 0..n}

None == "None"

-----------------------------------------------------------------------------
(* ase.data.chemical_symbols: index z+1 holds the symbol of atomic number z *)

chemical_symbols ==
    <<"X",
      "H", "He",
      "Li", "Be", "B", "C", "N", "O", "F", "Ne",
      "Na", "Mg", "Al", "Si", "P", "S", "Cl", "Ar",
      "K", "Ca", "Sc", "Ti", "V", "Cr", "Mn", "Fe", "Co", "Ni",
      "Cu", "Zn", "Ga", "Ge", "As", "Se", "Br", "Kr",
      "Rb", "Sr", "Y", "Zr", "Nb", "Mo", "Tc", "Ru", "Rh", "Pd",
      "Ag", "Cd", "In", "Sn", "Sb", "Te", "I", "Xe",
      "Cs", "Ba", "La", "Ce", "Pr", "Nd", "Pm", "Sm", "Eu", "Gd",
      "Tb", "Dy", "Ho", "Er", "Tm", "Yb", "Lu",
      "Hf", "Ta", "W", "Re", "Os", "Ir", "Pt", "Au", "Hg",
      "Tl", "Pb", "Bi", "Po", "At", "Rn",
      "Fr", "Ra", "Ac", "Th", "Pa", "U", "Np", "Pu", "Am", "Cm",
      "Bk", "Cf", "Es", "Fm", "Md", "No", "Lr",
      "Rf", "Db", "Sg", "Bh", "Hs", "Mt", "Ds", "Rg", "Cn",
      "Nh", "Fl", "Mc", "Lv", "Ts", "Og">>

\* atomic number of a symbol of the table
atomic_number(symbol) == (CHOOSE k \in 1..Len(chemical_symbols) : chemical_symbols[k] = symbol) - 1

-----------------------------------------------------------------------------
(* filter_db_with_elements.py: is_material_eligible *)

first_4_rows ==
    {"H", "He",
     "Li", "Be", "B", "C", "N", "O", "F", "Ne",
     "Na", "Mg", "Al", "Si", "P", "S", "Cl", "Ar",
     "K", "Ca", "Sc", "Ti", "V", "Cr", "Mn", "Fe", "Co", "Ni",
     "Cu", "Zn", "Ga", "Ge", "As", "Se", "Br", "Kr"}

noble_gases_without_Kr == {"He", "Ne", "Ar"}

noble_gases == {"He", "Ne", "Ar", "Kr"}

transition_metals == {"Sc", "Ti", "V", "Cr", "Mn", "Fe", "Co", "Ni"}

\* The three checks with their early returns, in the order of the code.
is_material_eligible(elements) ==
    IF ~(\A k \in 1..Len(elements) : elements[k] \in first_4_rows)
    THEN FALSE
    ELSE IF \E k \in 1..Len(elements) : elements[k] \in noble_gases
    THEN FALSE
    ELSE IF \E k \in 1..Len(elements) : elements[k] \in transition_metals
    THEN FALSE
    ELSE TRUE

\* Bounds of the filter's inputs: symbols of atomic number 0..MaxZ and uranium,
\* in lists of at most MaxElements entries.
MaxZ == 38
MaxElements == 2
FilterSymbols == {chemical_symbols[z + 1] : z \in 0..MaxZ} \cup {"U"}

FilterIdle ==
    /\ elements_list = <<>>
    /\ eligible_elements_flag = FALSE
    /\ filter_pc = "idle"

\* line 61: eligible_elements_flag = is_material_eligible(list(an_atoms.symbols))
CallIsMaterialEligible ==
    /\ filter_pc = "call"
    /\ eligible_elements_flag' = is_material_eligible(elements_list)
    /\ filter_pc' = "returned"
    /\ UNCHANGED <<elements_list, ingest_vars, db, census_vars, agg_vars, n_points, script_vars>>

-----------------------------------------------------------------------------
(* readout_json.py: db.json -> all_2DMat.db *)

\* d1 updated with d2
DictUpdate(d1, d2) ==
    [x \in DOMAIN d1 \cup DOMAIN d2 |-> IF x \in DOMAIN d2 THEN d2[x] ELSE d1[x]]

EmptyDict == <<>>
ZeroCell == "[[0, 0, 0], [0, 0, 0], [0, 0, 0]]"
ZeroXyz == "[0, 0, 0]"

\* line 29: range(min(1000000000, len(materials)))
ConvertLimit == 1000000000

\* lines 44-51: positions and symbols collected from the sites.  Every site
\* appends a position; only a site with a non-empty species list appends a symbol.
RECURSIVE site_positions(_)
site_positions(sites) ==
    IF sites = <<>> THEN <<>>
    ELSE <<Get(Head(sites), "xyz", ZeroXyz)>> \o site_positions(Tail(sites))

RECURSIVE site_symbols(_)
site_symbols(sites) ==
    IF sites = <<>> THEN <<>>
    ELSE LET species == Get(Head(sites), "species", <<>>)
         IN  (IF Len(species) > 0
              THEN <<Get(species[1], "element", "")>>
              ELSE <<>>) \o site_symbols(Tail(sites))

\* line 54: Atoms(symbols=symbols, positions=positions, cell=cell, pbc=...).
\* ase converts the symbols to atomic numbers first (KeyError on a string that is
\* no chemical symbol), then checks that positions has one entry per atom
\* (ValueError otherwise).  An empty symbol list with no positions is accepted.
AtomsOutcome(symbols, positions) ==
    IF \E k \in 1..Len(symbols) : symbols[k] \notin Range(chemical_symbols)
    THEN "KeyError"
    ELSE IF Len(symbols) # Len(positions)
    THEN "ValueError"
    ELSE "ok"

\* lines 73-78: the thermo block; every key is set, to None when thermo lacks it
thermo_key_value(material) ==
    IF "thermo" \in DOMAIN material
    THEN LET thermo == material["thermo"]
         IN  [k \in {"energy", "energy_per_atom", "energy_vdw", "energy_vdw_per_atom"}
                |-> Get(thermo, k, None)]
    ELSE EmptyDict

\* lines 81-93: a top-level property is copied only when the material has it
CopiedKeys == {"bandgap", "total_magnetization", "decomposition_energy",
               "exfoliation_energy_per_atom"}

copied_key_value(material) ==
    [k \in CopiedKeys \cap DOMAIN material |-> material[k]]

\* lines 57-93: key_value (of the twelve metadata keys of lines 58-69, all
\* filled by material.get(key, default), material_id stands for the rest)
key_value_of(material) ==
    DictUpdate(DictUpdate([material_id |-> Get(material, "material_id", "")],
                          thermo_key_value(material)),
               copied_key_value(material))

\* lines 33-54, 96: the row written for one material
row_of(material) ==
    LET structure == Get(material, "structure", EmptyDict)
        lattice == Get(structure, "lattice", EmptyDict)
        sites == Get(structure, "sites", <<>>)
    IN  [symbols |-> site_symbols(sites),
         positions |-> site_positions(sites),
         cell |-> Get(lattice, "matrix", ZeroCell),
         data |-> key_value_of(material)]

\* Bounds of the raw records.
MaxMaterials == 2
MaxSites == 2
SiteSymbols == {"C", "H"}
PropertyValues == {"0.0", "1.5"}

RawSites ==
    {EmptyDict, [species |-> <<>>], [species |-> <<EmptyDict>>]}
    \cup {[species |-> <<[element |-> e]>>] : e \in SiteSymbols}

RawStructures ==
    {EmptyDict} \cup {[sites |-> s] : s \in Lists(RawSites, MaxSites)}

OneAtomStructure == [sites |-> <<[species |-> <<[element |-> "C"]>>]>>]

\* Raw records: the empty record, every structure shape without properties, and
\* every thermo block and every combination of top-level properties on a
\* one-atom structure.
RawMaterials ==
    {EmptyDict}
    \cup {[structure |-> s] : s \in RawStructures}
    \cup {DictUpdate([structure |-> OneAtomStructure], p) : p \in Dicts(CopiedKeys, PropertyValues)}
    \cup {[structure |-> OneAtomStructure, thermo |-> t] :
              t \in Dicts({"energy", "energy_per_atom"}, PropertyValues)}

IngestIdle ==
    /\ materials = <<>>
    /\ all_db = <<>>
    /\ ingest_i = 0
    /\ ingest_pc = "idle"

\* lines 8-12, 20-26: db.json is read into materials; any old all_2DMat.db is
\* removed and a new one is created
LoadMaterials ==
    /\ ingest_pc = "load"
    /\ materials' \in Lists(RawMaterials, MaxMaterials)
    /\ all_db' = <<>>
    /\ ingest_i' = 0
    /\ ingest_pc' = "convert"
    /\ UNCHANGED <<filter_vars, db, census_vars, agg_vars, n_points, script_vars>>

Min(a, b) == IF a < b THEN a ELSE b

\* lines 29-96: one iteration of the conversion loop.  An exception of the Atoms
\* constructor is not caught: it ends the script, nothing is written for the
\* material and the rows written before stay in the database.
ConvertMaterial ==
    /\ ingest_pc = "convert"
    /\ ingest_i < Min(ConvertLimit, Len(materials))
    /\ LET material == materials[ingest_i + 1]
           row == row_of(material)
           outcome == AtomsOutcome(row.symbols, row.positions)
       IN  IF outcome = "ok"
           THEN /\ all_db' = Append(all_db, row)
                /\ ingest_i' = ingest_i + 1
                /\ ingest_pc' = "convert"
           ELSE /\ ingest_pc' = outcome
                /\ UNCHANGED <<all_db, ingest_i>>
    /\ UNCHANGED <<materials, filter_vars, db, census_vars, agg_vars, n_points, script_vars>>

\* lines 98-104: the loop has ended
ConvertDone ==
    /\ ingest_pc = "convert"
    /\ ingest_i = Min(ConvertLimit, Len(materials))
    /\ ingest_pc' = "done"
    /\ UNCHANGED <<materials, all_db, ingest_i, filter_vars, db, census_vars, agg_vars, n_points, script_vars>>

-----------------------------------------------------------------------------
(* analysis_db.py: the rows of the database under analysis *)

\* a row as readout_json.py writes it: one position per atom, the data dict
Row(symbols, data) ==
    [symbols |-> symbols,
     positions |-> [k \in 1..Len(symbols) |-> ZeroXyz],
     cell |-> ZeroCell,
     data |-> data]

\* Bounds of the databases under analysis.
MaxAtoms == 2
MaxCensusRows == 2
MaxAggRows == 10
AtomSymbols == {"X", "H", "C"}
AggValues == {"1.5"}
PropertyNames == {"bandgap", "band_gap"}

CensusRows == {Row(s, EmptyDict) : s \in Lists(AtomSymbols, MaxAtoms)}
AggRows == {Row(<<"C">>, d) : d \in Dicts({"bandgap"}, AggValues)}
AnalysisRows ==
    {Row(s, d) : s \in Lists(AtomSymbols, MaxAtoms),
                 d \in Dicts({"bandgap"}, PropertyValues \cup {None})}

-----------------------------------------------------------------------------
(* analysis_db.py: element_analysis *)

\* line 61: {symbol: 0 for symbol in chemical_symbols[1:]}
initial_element_counts == [symbol \in Range(Tail(chemical_symbols)) |-> 0]

\* a mistaken scan that counts every atom instead of every structure
count_atoms(counts, symbols) ==
    [e \in DOMAIN counts |->
        counts[e] + Cardinality({k \in 1..Len(symbols) : symbols[k] = e})]

\* lines 65-71: the unique elements of one structure, each counted once when it
\* is a key of element_counts
count_structure(counts, symbols) ==
    LET unique_elements == Range(symbols)
    IN  [e \in DOMAIN counts |->
            IF e \in unique_elements THEN counts[e] + 1 ELSE counts[e]]

\* a filter that also drops the elements counted once
counts_above_one(counts) ==
    [k \in {e \in DOMAIN counts : counts[e] > 1} |-> counts[k]]

\* line 74: {k: v for k, v in element_counts.items() if v > 0}
nonzero_counts(counts) ==
    [k \in {e \in DOMAIN counts : counts[e] > 0} |-> counts[k]]

\* dict.items(): the keys keep their insertion order, the order of chemical_symbols
items(counts) ==
    LET keys == SelectSeq(chemical_symbols, LAMBDA e : e \in DOMAIN counts)
    IN  [k \in 1..Len(keys) |-> <<keys[k], counts[keys[k]]>>]

\* an insertion that puts an item before the items of equal count
RECURSIVE insert_before_equal(_, _)
insert_before_equal(sorted, item) ==
    IF sorted = <<>> THEN <<item>>
    ELSE IF Head(sorted)[2] > item[2]
    THEN <<Head(sorted)>> \o insert_before_equal(Tail(sorted), item)
    ELSE <<item>> \o sorted

\* one insertion of a stable descending sort: item goes behind every item whose
\* count is at least its own
RECURSIVE insert_stable(_, _)
insert_stable(sorted, item) ==
    IF sorted = <<>> THEN <<item>>
    ELSE IF Head(sorted)[2] >= item[2]
    THEN <<Head(sorted)>> \o insert_stable(Tail(sorted), item)
    ELSE <<item>> \o sorted

\* line 77: sorted(element_counts.items(), key=lambda x: x[1], reverse=True);
\* Python's sort is stable, also with reverse=True
RECURSIVE sorted_by_count(_, _)
sorted_by_count(done, todo) ==
    IF todo = <<>> THEN done
    ELSE sorted_by_count(insert_stable(done, Head(todo)), Tail(todo))

CensusIdle ==
    /\ census_pc = "idle"
    /\ census_i = 0
    /\ element_counts = EmptyDict
    /\ sorted_elements = <<>>
    /\ census_report = <<>>

\* lines 55-61: the call, up to the loop
ElementAnalysisStart ==
    /\ census_pc = "idle"
    /\ agg_pc \in {"idle", "returned"}
    /\ element_counts' = initial_element_counts
    /\ census_i' = 0
    /\ census_pc' = "scan"
    /\ UNCHANGED <<sorted_elements, census_report, db, filter_vars, ingest_vars, agg_vars, n_points, script_vars>>

\* lines 64-71: one row of db.select()
ElementAnalysisRow ==
    /\ census_pc = "scan"
    /\ census_i < Len(db)
    /\ element_counts' = count_structure(element_counts, db[census_i + 1].symbols)
    /\ census_i' = census_i + 1
    /\ UNCHANGED <<census_pc, sorted_elements, census_report, db, filter_vars, ingest_vars, agg_vars, n_points, script_vars>>

\* lines 73-85: zero counts dropped, the report written in sorted order, the
\* filtered dict returned
ElementAnalysisFinish ==
    /\ census_pc = "scan"
    /\ census_i = Len(db)
    /\ element_counts' = nonzero_counts(element_counts)
    /\ sorted_elements' = sorted_by_count(<<>>, items(nonzero_counts(element_counts)))
    /\ census_report' = sorted_elements'
    /\ census_pc' = "returned"
    /\ UNCHANGED <<census_i, db, filter_vars, ingest_vars, agg_vars, n_points, script_vars>>

-----------------------------------------------------------------------------
(* analysis_db.py: analyze_property_distribution *)

Max(a, b) == IF a > b THEN a ELSE b

\* int(np.sqrt(n)): the square root truncated to an integer
IntSqrt(n) == CHOOSE k \in 0..n : k * k <= n /\ (k + 1) * (k + 1) > n

\* round(sqrt(n)): the nearest integer (sqrt(n) is never halfway for an integer n)
RoundSqrt(n) ==
    LET k == IntSqrt(n) IN IF n > k * k + k THEN k + 1 ELSE k

\* a bin count that rounds the square root
rounded_bin_count(n) == Min(100, Max(10, RoundSqrt(n)))

\* line 240: bin_count = min(100, max(10, int(np.sqrt(len(property_values)))))
bin_count_of(n) == Min(100, Max(10, IntSqrt(n)))

\* line 278: np.histogram(property_values, bins=10)
report_bins_of(n) == 10

\* a scan that counts a structure without the property as having it
count_always(present, has_property) == present + 1

\* line 219: structures_with_property += 1, reached only when the value was read
count_present(present, has_property) ==
    IF has_property THEN present + 1 ELSE present

AggIdle ==
    /\ property_name = ""
    /\ agg_pc = "idle"
    /\ agg_i = 0
    /\ property_values = <<>>
    /\ total_structures = 0
    /\ structures_with_property = 0
    /\ agg_return = ""
    /\ bin_count = 0
    /\ report_bins = 0

\* lines 201-212: the call, up to the loop
AnalyzePropertyStart ==
    /\ agg_pc = "idle"
    /\ census_pc \in {"idle", "returned"}
    /\ property_name' \in PropertyNames
    /\ property_values' = <<>>
    /\ total_structures' = 0
    /\ structures_with_property' = 0
    /\ agg_i' = 0
    /\ agg_pc' = "scan"
    /\ UNCHANGED <<agg_return, bin_count, report_bins, db, filter_vars, ingest_vars, census_vars, n_points, script_vars>>

\* lines 214-222: one row of db.select(); getattr raises AttributeError when
\* row.data has no such key, and the row is skipped
AnalyzePropertyRow ==
    /\ agg_pc = "scan"
    /\ agg_i < Len(db)
    /\ LET data == db[agg_i + 1].data
           has_property == property_name \in DOMAIN data
       IN  /\ total_structures' = total_structures + 1
           /\ property_values' = IF has_property
                                 THEN Append(property_values, data[property_name])
                                 ELSE property_values
           /\ structures_with_property' = count_present(structures_with_property, has_property)
    /\ agg_i' = agg_i + 1
    /\ UNCHANGED <<property_name, agg_pc, agg_return, bin_count, report_bins, db, filter_vars,
                   ingest_vars, census_vars, n_points, script_vars>>

\* lines 224-285: without values the function prints a message and returns None;
\* min, max and np.mean raise TypeError when a value is None, which ends the
\* call; otherwise the histogram is plotted, the report is written and the
\* values are returned
AnalyzePropertyFinish ==
    /\ agg_pc = "scan"
    /\ agg_i = Len(db)
    /\ IF property_values = <<>>
       THEN /\ agg_return' = "None"
            /\ agg_pc' = "returned"
            /\ UNCHANGED <<bin_count, report_bins>>
       ELSE IF None \in Range(property_values)
       THEN /\ agg_pc' = "TypeError"
            /\ UNCHANGED <<agg_return, bin_count, report_bins>>
       ELSE /\ agg_return' = "property_values"
            /\ agg_pc' = "returned"
            /\ bin_count' = bin_count_of(Len(property_values))
            /\ report_bins' = report_bins_of(Len(property_values))
    /\ UNCHANGED <<property_name, agg_i, property_values, total_structures,
                   structures_with_property, db, filter_vars, ingest_vars, census_vars, n_points, script_vars>>

\* Bound of the number of retained values when only the histograms are computed.
MaxPoints == 10300

\* lines 240-242, 278: the two histograms of a scan that retained n_points values
HistogramBins ==
    /\ agg_pc = "histogram"
    /\ bin_count' = bin_count_of(n_points)
    /\ report_bins' = report_bins_of(n_points)
    /\ agg_return' = "property_values"
    /\ agg_pc' = "returned"
    /\ UNCHANGED <<property_name, agg_i, property_values, total_structures,
                   structures_with_property, db, filter_vars, ingest_vars, census_vars, n_points, script_vars>>

-----------------------------------------------------------------------------
(* filter_db_with_elements.py: the script, all_2DMat.db -> filtered_2DMat.db
   and filtered_2DMat_sample.db *)

\* line 64: if tgt_db.count() < 5
SampleLimit == 5

\* Bounds of the script's runs: the rows of all_2DMat.db (each with the
\* material_id that readout_json.py always stores) and the number of runs.
MaxSourceRows == 5
MaxRuns == 2
SourceRows ==
    {Row(<<"C">>, [material_id |-> "2dm-1"]),
     Row(<<"C", "H">>, [material_id |-> "2dm-2"]),
     Row(<<"C", "Fe">>, [material_id |-> "2dm-3"])}

ScriptIdle ==
    /\ filtered_db = <<>>
    /\ sample_db = <<>>
    /\ script_i = 0
    /\ script_pc = "idle"
    /\ script_runs = 0

\* lines 54-57: a run starts.  An existing filtered_2DMat.db is removed and a new
\* one is created; filtered_2DMat_sample.db is opened as an earlier run left it.
ScriptStart ==
    /\ script_pc \in {"start", "done"}
    /\ script_runs < MaxRuns
    /\ filtered_db' = <<>>
    /\ script_i' = 0
    /\ script_pc' = "loop"
    /\ UNCHANGED <<sample_db, script_runs, filter_vars, ingest_vars, db, census_vars,
                   agg_vars, n_points>>

\* lines 58-65: one row of db.select().  An eligible row is written to the
\* filtered store and, while that store counts fewer than 5 rows after the
\* write, to the sample store as well.
ScriptRow ==
    /\ script_pc = "loop"
    /\ script_i < Len(all_db)
    /\ LET a_row == all_db[script_i + 1]
           flag == is_material_eligible(a_row.symbols)
       IN  /\ elements_list' = a_row.symbols
           /\ eligible_elements_flag' = flag
           /\ filtered_db' = IF flag THEN Append(filtered_db, a_row) ELSE filtered_db
           /\ sample_db' = IF flag /\ Len(filtered_db') < SampleLimit
                           THEN Append(sample_db, a_row)
                           ELSE sample_db
    /\ script_i' = script_i + 1
    /\ UNCHANGED <<filter_pc, script_pc, script_runs, ingest_vars, db, census_vars,
                   agg_vars, n_points>>

\* lines 66-67: the loop has ended, the two counts are printed
ScriptEnd ==
    /\ script_pc = "loop"
    /\ script_i = Len(all_db)
    /\ script_pc' = "done"
    /\ script_runs' = script_runs + 1
    /\ UNCHANGED <<filtered_db, sample_db, script_i, filter_vars, ingest_vars, db,
                   census_vars, agg_vars, n_points>>

-----------------------------------------------------------------------------
(* Specifications *)

\* is_material_eligible on every bounded element list
InitFilter ==
    /\ elements_list \in Lists(FilterSymbols, MaxElements)
    /\ eligible_elements_flag = FALSE
    /\ filter_pc = "call"
    /\ IngestIdle /\ db = <<>> /\ CensusIdle /\ AggIdle /\ n_points = 0 /\ ScriptIdle
NextFilter == CallIsMaterialEligible
SpecFilter == InitFilter /\ [][NextFilter]_vars

\* readout_json.py run on every bounded db.json
InitIngest ==
    /\ materials = <<>> /\ all_db = <<>> /\ ingest_i = 0 /\ ingest_pc = "load"
    /\ FilterIdle /\ db = <<>> /\ CensusIdle /\ AggIdle /\ n_points = 0 /\ ScriptIdle
NextIngest == LoadMaterials \/ ConvertMaterial \/ ConvertDone
SpecIngest == InitIngest /\ [][NextIngest]_vars

\* element_analysis on every bounded database
InitCensus ==
    /\ db \in Lists(CensusRows, MaxCensusRows)
    /\ FilterIdle /\ IngestIdle /\ CensusIdle /\ AggIdle /\ n_points = 0 /\ ScriptIdle
NextCensus == ElementAnalysisStart \/ ElementAnalysisRow \/ ElementAnalysisFinish
SpecCensus == InitCensus /\ [][NextCensus]_vars

\* analyze_property_distribution on every bounded database
InitAgg ==
    /\ db \in Lists(AggRows, MaxAggRows)
    /\ FilterIdle /\ IngestIdle /\ CensusIdle /\ AggIdle /\ n_points = 0 /\ ScriptIdle
NextAgg == AnalyzePropertyStart \/ AnalyzePropertyRow \/ AnalyzePropertyFinish
SpecAgg == InitAgg /\ [][NextAgg]_vars

\* both analyses, one after the other in either order, on one database
InitAnalysis ==
    /\ db \in Lists(AnalysisRows, MaxCensusRows)
    /\ FilterIdle /\ IngestIdle /\ CensusIdle /\ AggIdle /\ n_points = 0 /\ ScriptIdle
NextAnalysis == NextCensus \/ NextAgg
SpecAnalysis == InitAnalysis /\ [][NextAnalysis]_vars

\* the histogram bin counts for every bounded number of retained values
InitBins ==
    /\ n_points \in 1..MaxPoints
    /\ property_name = "" /\ agg_pc = "histogram" /\ agg_i = 0 /\ property_values = <<>>
    /\ total_structures = 0 /\ structures_with_property = 0 /\ agg_return = ""
    /\ bin_count = 0 /\ report_bins = 0
    /\ FilterIdle /\ IngestIdle /\ db = <<>> /\ CensusIdle /\ ScriptIdle
NextBins == HistogramBins
SpecBins == InitBins /\ [][NextBins]_vars

\* the filter script run up to MaxRuns times over every bounded all_2DMat.db,
\* the first run in a directory without output stores
InitScript ==
    /\ all_db \in Lists(SourceRows, MaxSourceRows)
    /\ materials = <<>> /\ ingest_i = 0 /\ ingest_pc = "idle"
    /\ filtered_db = <<>> /\ sample_db = <<>> /\ script_i = 0
    /\ script_pc = "start" /\ script_runs = 0
    /\ FilterIdle /\ db = <<>> /\ CensusIdle /\ AggIdle /\ n_points = 0
NextScript == ScriptStart \/ ScriptRow \/ ScriptEnd
SpecScript == InitScript /\ [][NextScript]_vars

Init == InitAnalysis
Next == NextAnalysis
Spec == SpecAnalysis

-----------------------------------------------------------------------------
(* Claims about is_material_eligible *)

\* the three rules of the screening, as membership conditions on a set of symbols
InFirstFourRows(S) == \A e \in S : atomic_number(e) \in 1..36
NoNobleGas(S) == S \cap {"He", "Ne", "Ar", "Kr"} = {}
NoScToNi(S) == S \cap {"Sc", "Ti", "V", "Cr", "Mn", "Fe", "Co", "Ni"} = {}

Reordered(list, p) == [k \in 1..Len(list) |-> list[p[k]]]

-----------------------------------------------------------------------------
(* Claims about element_analysis *)

\* the number of rows whose atom list contains the symbol
StructuresWith(symbol) ==
    Cardinality({k \in 1..Len(db) : symbol \in Range(db[k].symbols)})

\* the symbols that occur in at least one row
OccurringSymbols == UNION {Range(db[k].symbols) : k \in 1..Len(db)}

\* C2 as stated: the returned mapping has as keys exactly the symbols that occur in
\* at least one record, each with the number of records that contain it.
C2_KeysAreAllOccurringSymbols ==
    census_pc = "returned" =>
        /\ DOMAIN element_counts = OccurringSymbols
        /\ \A e \in DOMAIN element_counts : element_counts[e] = StructuresWith(e)

\* C2, amended: the returned mapping has as keys exactly the symbols other than
\* the placeholder X (atomic number 0, not a key of the table of line 61) that
\* occur in at least one record; the value of a key is the number of records
\* whose atom list contains it, so a record counts once however many atoms of
\* the element it has, and no key has count zero.
C2_KeysAreOccurringElements ==
    census_pc = "returned" =>
        /\ DOMAIN element_counts = OccurringSymbols \ {"X"}
        /\ \A e \in DOMAIN element_counts :
              element_counts[e] = StructuresWith(e) /\ element_counts[e] > 0

\* C2 witness: a record with two atoms of carbon was counted once, and a record
\* with an X atom was scanned
C2_Witness ==
    /\ census_pc = "returned"
    /\ \E k \in 1..Len(db) : db[k].symbols = <<"C", "C">>
    /\ "X" \in OccurringSymbols
    /\ "C" \in DOMAIN element_counts
    /\ element_counts["C"] = 1

\* Python's order of the symbols as strings
symbols_ascending ==
    <<"Ac", "Ag", "Al", "Am", "Ar", "As", "At", "Au", "B", "Ba", "Be", "Bh",
      "Bi", "Bk", "Br", "C", "Ca", "Cd", "Ce", "Cf", "Cl", "Cm", "Cn", "Co",
      "Cr", "Cs", "Cu", "Db", "Ds", "Dy", "Er", "Es", "Eu", "F", "Fe", "Fl",
      "Fm", "Fr", "Ga", "Gd", "Ge", "H", "He", "Hf", "Hg", "Ho", "Hs", "I",
      "In", "Ir", "K", "Kr", "La", "Li", "Lr", "Lu", "Lv", "Mc", "Md", "Mg",
      "Mn", "Mo", "Mt", "N", "Na", "Nb", "Nd", "Ne", "Nh", "Ni", "No", "Np",
      "O", "Og", "Os", "P", "Pa", "Pb", "Pd", "Pm", "Po", "Pr", "Pt", "Pu",
      "Ra", "Rb", "Re", "Rf", "Rg", "Rh", "Rn", "Ru", "S", "Sb", "Sc", "Se",
      "Sg", "Si", "Sm", "Sn", "Sr", "Ta", "Tb", "Tc", "Te", "Th", "Ti", "Tl",
      "Tm", "Ts", "U", "V", "W", "X", "Xe", "Y", "Yb", "Zn", "Zr">>

string_rank(symbol) ==
    CHOOSE k \in 1..Len(symbols_ascending) : symbols_ascending[k] = symbol

CountsNonIncreasing(report) ==
    \A a, b \in 1..Len(report) : a < b => report[a][2] >= report[b][2]

\* C8 as stated: the report lists the elements in non-increasing order of count,
\* and elements of equal count in ascending order of their symbol.
C8_TiesInSymbolOrder ==
    census_pc = "returned" =>
        /\ CountsNonIncreasing(census_report)
        /\ \A a, b \in 1..Len(census_report) :
              (a < b /\ census_report[a][2] = census_report[b][2])
                  => string_rank(census_report[a][1]) < string_rank(census_report[b][1])

\* C8, amended: the report lists every key of the returned mapping once with its
\* count, in non-increasing order of count, and elements of equal count in
\* ascending order of atomic number: the stable sort keeps the order of the
\* element table among equal counts.
C8_TiesInTableOrder ==
    census_pc = "returned" =>
        /\ CountsNonIncreasing(census_report)
        /\ \A a, b \in 1..Len(census_report) :
              (a < b /\ census_report[a][2] = census_report[b][2])
                  => atomic_number(census_report[a][1]) < atomic_number(census_report[b][1])
        /\ Len(census_report) = Cardinality(DOMAIN element_counts)
        /\ \A e \in DOMAIN element_counts :
              \E a \in 1..Len(census_report) : census_report[a] = <<e, element_counts[e]>>

\* C8 witness: hydrogen and carbon tie and are reported after a more frequent
\* element or alone, hydrogen first
C8_Witness ==
    /\ census_pc = "returned"
    /\ census_report = << <<"H", 1>>, <<"C", 1>> >>

RECURSIVE SumOver(_, _)
SumOver(f, keys) ==
    IF keys = {} THEN 0
    ELSE LET k == CHOOSE x \in keys : TRUE
         IN  f[k] + SumOver(f, keys \ {k})

CensusSum == SumOver(element_counts, DOMAIN element_counts)

\* the elements of a row that the census counts
CountedElements(k) == Range(db[k].symbols) \ {"X"}

Monoelemental(k) == Cardinality(Range(db[k].symbols)) = 1

\* C10 as stated: for a non-empty corpus, if the sum of the census counts equals
\* the number of records then every record is monoelemental and all records hold
\* the same single element (in every other corpus the sum differs).
C10_SumEqualsCountOnlyForOneElement ==
    (census_pc = "returned" /\ Len(db) > 0 /\ CensusSum = Len(db)) =>
        /\ \A k \in 1..Len(db) : Monoelemental(k)
        /\ \A j, k \in 1..Len(db) : Range(db[j].symbols) = Range(db[k].symbols)

\* C10, amended: for a non-empty corpus the sum of the census counts is the sum
\* over the records of the number of distinct elements other than X in the
\* record; so when every record has at least one such element, the sum equals
\* the number of records exactly when every record has exactly one, whether or
\* not the records share that element.
C10_SumIsElementsPerRecord ==
    (census_pc = "returned" /\ Len(db) > 0) =>
        /\ CensusSum =
              SumOver([k \in 1..Len(db) |-> Cardinality(CountedElements(k))], 1..Len(db))
        /\ (\A k \in 1..Len(db) : CountedElements(k) # {})
              => ((CensusSum = Len(db))
                     <=> \A k \in 1..Len(db) : Cardinality(CountedElements(k)) = 1)

\* C10 witness: two monoelemental records of different elements, and the sum of
\* the counts equals the number of records
C10_Witness ==
    /\ census_pc = "returned"
    /\ Len(db) = 2
    /\ db[1].symbols = <<"C">>
    /\ db[2].symbols = <<"H">>
    /\ CensusSum = 2

-----------------------------------------------------------------------------
(* Claims about analyze_property_distribution *)

\* the rows among the first n that carry the property
Carriers(n) == {k \in 1..n : property_name \in DOMAIN db[k].data}

\* the values of the property in the first n rows, in row order
RECURSIVE CarriedValues(_)
CarriedValues(n) ==
    IF n = 0 THEN <<>>
    ELSE IF n \in Carriers(n)
    THEN Append(CarriedValues(n - 1), db[n].data[property_name])
    ELSE CarriedValues(n - 1)

\* C3: during the scan for a property, after every processed prefix
\* total_structures is the number of rows processed and
\* structures_with_property is the number of those rows that carry the property;
\* a row without it adds to total_structures only and appends no value, so the
\* retained values are exactly the values of the carriers and
\* structures_with_property <= total_structures (10 rows with 3 carriers end with
\* 10 and 3).
C3_CountsFollowPrefix ==
    agg_pc \in {"scan", "returned"} =>
        /\ total_structures = agg_i
        /\ structures_with_property = Cardinality(Carriers(agg_i))
        /\ property_values = CarriedValues(agg_i)
        /\ structures_with_property <= total_structures
        /\ (agg_pc = "returned" => total_structures = Len(db))

\* C3 witness: a scan of 10 rows with 3 carriers has ended
C3_Witness ==
    /\ agg_pc = "returned"
    /\ Len(db) = 10
    /\ Cardinality(Carriers(10)) = 3
    /\ total_structures = 10
    /\ structures_with_property = 3

\* C6: a request for a property that no row of a non-empty database carries ends
\* in the UnknownProperty error, not in a normal return; a request for a property
\* that some row carries does not end in UnknownProperty.
C6_UnknownPropertyRaised ==
    (agg_pc \notin {"idle", "scan"} /\ Len(db) > 0) =>
        IF Carriers(Len(db)) = {}
        THEN agg_pc = "UnknownProperty"
        ELSE agg_pc # "UnknownProperty"

\* C7: over a database of zero rows neither the property aggregation nor the
\* element census returns normally: both end in the EmptyCorpusError error, which
\* differs from the outcome for an unknown property.
C7_EmptyCorpusRaises ==
    db = <<>> =>
        /\ census_pc \in {"idle", "scan", "EmptyCorpusError"}
        /\ agg_pc \in {"idle", "scan", "EmptyCorpusError"}

\* C9 as stated: for n >= 1 retained values both the plotted histogram and the
\* histogram of the report have clamp(round(sqrt(n)), 10, 100) bins.
C9_BinsRoundedSqrt ==
    (agg_pc = "returned" /\ n_points >= 1) =>
        /\ bin_count = rounded_bin_count(n_points)
        /\ report_bins = rounded_bin_count(n_points)

\* C9, amended: for n >= 1 retained values the plotted histogram has
\* clamp(floor(sqrt(n)), 10, 100) bins, the square root being truncated: 10 bins
\* for n < 121, 100 bins for n >= 10000, and otherwise the b with
\* b*b <= n < (b+1)*(b+1); the histogram of the report always has 10 bins.
C9_BinsTruncatedSqrt ==
    (agg_pc = "returned" /\ n_points >= 1) =>
        /\ bin_count \in 10..100
        /\ (n_points < 121 => bin_count = 10)
        /\ (n_points >= 10000 => bin_count = 100)
        /\ (n_points >= 121 /\ n_points < 10000) =>
               (bin_count * bin_count <= n_points
                /\ n_points < (bin_count + 1) * (bin_count + 1))
        /\ report_bins = 10

\* C9 witness: 111 values, whose square root 10.54 rounds to 11, got 10 bins in
\* the plot and 10 in the report
C9_Witness ==
    /\ agg_pc = "returned"
    /\ n_points = 111
    /\ bin_count = 10
    /\ report_bins = 10

-----------------------------------------------------------------------------
(* Claims about readout_json.py *)

\* a raw record without sites, or with a site that has no species or no element
Malformed(material) ==
    LET structure == Get(material, "structure", EmptyDict)
        sites == Get(structure, "sites", <<>>)
    IN  \/ sites = <<>>
        \/ \E k \in 1..Len(sites) :
              \/ "species" \notin DOMAIN sites[k]
              \/ sites[k]["species"] = <<>>
              \/ "element" \notin DOMAIN sites[k]["species"][1]

\* C4: nothing is stored for a raw record whose site list is absent or empty or
\* in which a site lacks a species or element symbol; every stored row has at
\* least one atom and one symbol per site.  (Row k was written for material k:
\* the loop stops at the first material that fails.)
C4_MalformedRecordNotStored ==
    \A k \in 1..Len(all_db) :
        /\ ~Malformed(materials[k])
        /\ Len(all_db[k].symbols) > 0
        /\ Len(all_db[k].symbols) = Len(all_db[k].positions)

KnownScalarKeys == {"bandgap", "total_magnetization", "decomposition_energy",
                    "exfoliation_energy_per_atom", "energy", "energy_per_atom"}

\* where the raw record carries a known scalar property: the energies in its
\* thermo block, the others at top level
RawHolder(material, key) ==
    IF key \in {"energy", "energy_per_atom"}
    THEN Get(material, "thermo", EmptyDict)
    ELSE material

\* C5: for every stored row and every known scalar property key, the key is in
\* the stored data exactly when the raw record carries a value for it, and then
\* with that value; an absent key is never stored with a placeholder.
C5_PropertiesCopiedIffPresent ==
    \A k \in 1..Len(all_db) : \A key \in KnownScalarKeys :
        /\ (key \in DOMAIN all_db[k].data) <=> (key \in DOMAIN RawHolder(materials[k], key))
        /\ (key \in DOMAIN all_db[k].data) =>
               all_db[k].data[key] = Get(RawHolder(materials[k], key), key, "absent")

-----------------------------------------------------------------------------
(* Claims about the filter script *)

\* the eligible rows of all_2DMat.db, in its order
EligibleSourceRows ==
    SelectSeq(all_db, LAMBDA r :
        /\ InFirstFourRows(Range(r.symbols))
        /\ NoNobleGas(Range(r.symbols))
        /\ NoScToNi(Range(r.symbols)))

\* C11: after every run of the filter script, a re-run over the stores of an
\* earlier run included, the filtered store holds exactly the eligible source
\* rows in source order and the sample store holds exactly the first min(4, k)
\* rows of the filtered store in the same order, k being the number of eligible
\* source rows; so the sample store holds at most 4 rows and no row that the
\* filtered store lacks.
C11_StoresAfterEveryRun ==
    script_pc = "done" =>
        /\ filtered_db = EligibleSourceRows
        /\ sample_db = SubSeq(filtered_db, 1, Min(4, Len(EligibleSourceRows)))
        /\ Len(sample_db) <= 4
        /\ Range(sample_db) \subseteq Range(filtered_db)

\* C11 restricted to the first run in a directory without output stores
FirstRunStores ==
    (script_pc = "done" /\ script_runs = 1) =>
        /\ filtered_db = EligibleSourceRows
        /\ sample_db = SubSeq(filtered_db, 1, Min(4, Len(EligibleSourceRows)))

====
